---- MODULE Spec2Model ----
(***************************************************************************)
(* Caching forward proxy of cmd/main.go: the RWMutex-protected Cache, the  *)
(* cache key built by proxyHandler, and the handlers registered by main.   *)
(* Strings are sequences of one-character strings, so that concatenation   *)
(* and URL escaping are computed and not assumed.                          *)
(***************************************************************************)
EXTENDS Integers, Sequences, FiniteSets, TLC

\* ------------------------------------------------------------------ bounds
\* Handler goroutines that may run at the same time.
NumProcs == 2
\* Requests accepted over one run of the server.
MaxReqs == 3

\* ------------------------------------------------------------- characters
SP == " "
LowerOf == [c \in {"H", "T", "P", "S"} |-> CASE c = "H" -> "h" [] c = "T" -> "t"
                                             [] c = "P" -> "p" [] c = "S" -> "s"]
Letters == {"h", "t", "p", "s", "u", "v", "x", "y", "H", "T", "P", "S", "G", "E", "O", "U"}
Digits == {"0", "2", "5"}
\* net/url ishex, on the characters used here (none of a-f, A-F occurs).
HexDigits == Digits
\* The byte a two-digit escape stands for, and back (net/url unhex / escape).
HexByte == [p \in {<<"2", "0">>, <<"2", "2">>, <<"2", "5">>, <<"0", "0">>} |->
              CASE p = <<"2", "0">> -> " "
                [] p = <<"2", "2">> -> "\""
                [] p = <<"2", "5">> -> "%"
                [] p = <<"0", "0">> -> "NUL"]
ByteHex == [c \in {" ", "\"", "%", "NUL"} |->
              CASE c = " " -> <<"%", "2", "0">>
                [] c = "\"" -> <<"%", "2", "2">>
                [] c = "%" -> <<"%", "2", "5">>
                [] c = "NUL" -> <<"%", "0", "0">>]

\* strings.Index: the first position of c in s, 0 when absent.
RECURSIVE IndexFrom(_, _, _)
IndexFrom(s, c, i) ==
    IF i > Len(s) THEN 0
    ELSE IF s[i] = c THEN i ELSE IndexFrom(s, c, i + 1)
Index(s, c) == IndexFrom(s, c, 1)

\* strings.LastIndex.
RECURSIVE LastIndexFrom(_, _, _)
LastIndexFrom(s, c, i) ==
    IF i < 1 THEN 0
    ELSE IF s[i] = c THEN i ELSE LastIndexFrom(s, c, i - 1)
LastIndex(s, c) == LastIndexFrom(s, c, Len(s))

HasPrefix2(s, c) == Len(s) >= 2 /\ s[1] = c /\ s[2] = c
Drop(s, n) == SubSeq(s, n + 1, Len(s))
Take(s, n) == SubSeq(s, 1, n)
ToLower(s) == [i \in 1..Len(s) |-> IF s[i] \in DOMAIN LowerOf THEN LowerOf[s[i]] ELSE s[i]]

\* ------------------------------------------------------------------ net/url
\* getScheme: an error for a leading colon, otherwise the scheme (possibly
\* empty) and the rest.
RECURSIVE GetSchemeFrom(_, _)
GetSchemeFrom(raw, i) ==
    IF i > Len(raw) THEN [err |-> FALSE, scheme |-> <<>>, rest |-> raw]
    ELSE IF raw[i] \in Letters THEN GetSchemeFrom(raw, i + 1)
    ELSE IF raw[i] \in Digits
         THEN IF i = 1 THEN [err |-> FALSE, scheme |-> <<>>, rest |-> raw]
              ELSE GetSchemeFrom(raw, i + 1)
    ELSE IF raw[i] = ":"
         THEN IF i = 1 THEN [err |-> TRUE, scheme |-> <<>>, rest |-> <<>>]
              ELSE [err |-> FALSE, scheme |-> Take(raw, i - 1), rest |-> Drop(raw, i)]
    ELSE [err |-> FALSE, scheme |-> <<>>, rest |-> raw]
GetScheme(raw) == GetSchemeFrom(raw, 1)

\* unescape(s, encodePath): <<ok, decoded>>; a '%' not followed by two hex
\* digits is an EscapeError.
RECURSIVE UnescapeFrom(_, _, _)
UnescapeFrom(s, i, acc) ==
    IF i > Len(s) THEN <<TRUE, acc>>
    ELSE IF s[i] = "%"
         THEN IF i + 2 > Len(s) \/ s[i + 1] \notin HexDigits \/ s[i + 2] \notin HexDigits
                 \/ <<s[i + 1], s[i + 2]>> \notin DOMAIN HexByte
              THEN <<FALSE, <<>>>>
              ELSE UnescapeFrom(s, i + 3, Append(acc, HexByte[<<s[i + 1], s[i + 2]>>]))
    ELSE UnescapeFrom(s, i + 1, Append(acc, s[i]))
Unescape(s) == UnescapeFrom(s, 1, <<>>)

\* shouldEscape(c, encodePath): letters, digits and "/" ":" stay as they are.
ShouldEscape(c) == c \notin Letters \cup Digits \cup {"/", ":"}

\* escape(s, encodePath).
RECURSIVE EscapeFrom(_, _, _)
EscapeFrom(s, i, acc) ==
    IF i > Len(s) THEN acc
    ELSE EscapeFrom(s, i + 1,
                    IF ShouldEscape(s[i]) THEN acc \o ByteHex[s[i]] ELSE Append(acc, s[i]))
Escape(s) == EscapeFrom(s, 1, <<>>)

\* validEncoded(s, encodePath): "%" is accepted, any other character that
\* needs escaping is not.
ValidEncoded(s) == \A i \in 1..Len(s) : s[i] = "%" \/ ~ShouldEscape(s[i])

\* parseHost, without brackets and user info: an optional port of digits
\* after the last colon, and no character that a host may not hold.
ValidHost(h) ==
    LET c == LastIndex(h, ":")
    IN /\ c # 0 => \A i \in (c + 1)..Len(h) : h[i] \in Digits
       /\ \A i \in 1..Len(h) : h[i] \in Letters \cup Digits \cup {":"}

NoURL == [err |-> TRUE, Scheme |-> <<>>, Opaque |-> <<>>, Host |-> <<>>,
          Path |-> <<>>, RawPath |-> <<>>, OmitHost |-> FALSE]

\* URL.setPath on an already parsed prefix u.
SetPath(u, p) ==
    LET un == Unescape(p)
    IN IF ~un[1] THEN NoURL
       ELSE [u EXCEPT !.Path = un[2],
                      !.RawPath = IF p = Escape(un[2]) THEN <<>> ELSE p]

\* url.Parse for inputs without "?", "#", "@", "[" and control bytes.
URLParse(raw) ==
    LET gs == GetScheme(raw)
        u0 == [NoURL EXCEPT !.err = FALSE, !.Scheme = ToLower(gs.scheme)]
        rest == gs.rest
        slash == Index(rest, "/")
        segment == IF slash = 0 THEN rest ELSE Take(rest, slash - 1)
    IN IF gs.err THEN NoURL
       ELSE IF ~(Len(rest) >= 1 /\ rest[1] = "/")
            THEN IF gs.scheme # <<>> THEN [u0 EXCEPT !.Opaque = rest]
                 ELSE IF Index(segment, ":") # 0 THEN NoURL
                 ELSE SetPath(u0, rest)
       ELSE IF HasPrefix2(rest, "/")
                /\ (gs.scheme # <<>> \/ ~(Len(rest) >= 3 /\ rest[3] = "/"))
            THEN LET after == Drop(rest, 2)
                     i == Index(after, "/")
                     authority == IF i = 0 THEN after ELSE Take(after, i - 1)
                     path == IF i = 0 THEN <<>> ELSE Drop(after, i - 1)
                 IN IF ~ValidHost(authority) THEN NoURL
                    ELSE SetPath([u0 EXCEPT !.Host = authority], path)
       ELSE SetPath([u0 EXCEPT !.OmitHost = (gs.scheme # <<>>)], rest)

\* URL.EscapedPath.
EscapedPath(u) ==
    IF u.RawPath # <<>> /\ ValidEncoded(u.RawPath)
       /\ Unescape(u.RawPath)[1] /\ Unescape(u.RawPath)[2] = u.Path
    THEN u.RawPath
    ELSE Escape(u.Path)

\* URL.String.
URLString(u) ==
    LET path == EscapedPath(u)
        head == (IF u.Scheme # <<>> THEN u.Scheme \o <<":">> ELSE <<>>)
        slash == Index(path, "/")
        segment == IF slash = 0 THEN path ELSE Take(path, slash - 1)
    IN IF u.Opaque # <<>> THEN head \o u.Opaque
       ELSE LET auth == IF (u.Scheme # <<>> \/ u.Host # <<>>)
                           /\ ~(u.OmitHost /\ u.Host = <<>>)
                           /\ (u.Host # <<>> \/ u.Path # <<>>)
                        THEN <<"/", "/">> \o u.Host ELSE <<>>
                sep == IF path # <<>> /\ path[1] # "/" /\ u.Host # <<>> THEN <<"/">> ELSE <<>>
                dot == IF head \o auth \o sep = <<>> /\ Index(segment, ":") # 0
                       THEN <<".", "/">> ELSE <<>>
            IN head \o auth \o sep \o dot \o path


\* ------------------------------------------------------------ HTTP values
GET == <<"G", "E", "T">>
POST == <<"P", "O", "S", "T">>
PUT == <<"P", "U", "T">>
Methods == {GET, POST, PUT}
\* Values of the "target" query parameter: absent, an invalid escape, and two
\* spellings that url.Parse reads as the same URL.
Targets == {<<>>, <<"%">>, <<"h", ":", "/", "/", "x">>, <<"H", ":", "/", "/", "x">>}
ContentTypes == {<<"t">>, <<"t", " ", "u">>}
Authorizations == {<<"v">>, <<"u", " ", "v">>}

\* The requests of the mixed workload: every method on the proxy path with a
\* target that parses, the targets that are refused, and the two other
\* endpoints.
ProxyRequests == [path : {"/"}, method : Methods, target : {<<"H", ":", "/", "/", "x">>},
                  ct : {<<"t">>}, auth : {<<"v">>}]
                 \cup [path : {"/"}, method : {GET}, target : {<<>>, <<"%">>},
                       ct : {<<"t">>}, auth : {<<"v">>}]
\* The requests served one at a time: GET and POST for one target, and
\* /health under every method.
SerialRequests == [path : {"/"}, method : {GET, POST},
                   target : {<<"h", ":", "/", "/", "x">>}, ct : {<<"t">>}, auth : {<<"v">>}]
HealthAnyMethod == [path : {"/health"}, method : Methods, target : {<<>>},
                    ct : {<<>>}, auth : {<<>>}]
DebugRequests == [path : {"/debug"}, method : {GET}, target : {<<>>},
                  ct : {<<>>}, auth : {<<>>}]
HealthRequests == [path : {"/health"}, method : {GET, POST}, target : {<<>>},
                   ct : {<<>>}, auth : {<<>>}]
\* The requests of the header workload: GET requests for one target that
\* differ in the two headers of the cache key, served one after the other.
HeaderRequests == [path : {"/"}, method : {GET},
                   target : {<<"h", ":", "/", "/", "x">>},
                   ct : ContentTypes, auth : Authorizations]
NoRequest == [path |-> "", method |-> <<>>, target |-> <<>>, ct |-> <<>>, auth |-> <<>>]

\* Header maps are functions from the names that are set to their value.
NoHeader == [h \in {} |-> ""]
SetHeaders(base, more) ==
    [h \in DOMAIN base \cup DOMAIN more |-> IF h \in DOMAIN more THEN more[h] ELSE base[h]]
ACAO == "Access-Control-Allow-Origin"
ACAM == "Access-Control-Allow-Methods"
ACAH == "Access-Control-Allow-Headers"

\* What the target server may answer: status, headers and the body stream.
UpstreamResponses ==
    {[StatusCode |-> 200, Header |-> NoHeader, Stream |-> <<"a">>],
     [StatusCode |-> 404, Header |-> [h \in {ACAO} |-> "up"], Stream |-> <<"b", "c">>]}

\* Answers of every class of status, for the workload that serves one request
\* at a time.
Statuses == {200, 301, 404, 500, 503}
StatusResponses ==
    {[StatusCode |-> c, Header |-> NoHeader, Stream |-> <<"a">>] : c \in Statuses}

\* The response as the client sees it; NoResponse until one is written.
NoResponse == [StatusCode |-> 0, Header |-> NoHeader, Body |-> <<>>]
\* &http.Response{} of line 95: no status, no headers, no request, a nil Body.
ZeroResponse == [StatusCode |-> 0, Header |-> NoHeader, BodyIsNil |-> TRUE,
                 Stream |-> <<>>, Request |-> NoRequest, URL |-> <<>>]
NoEntry == [Response |-> ZeroResponse, Body |-> <<>>]
NoDebug == [k \in {} |-> 0]

\* The response http.DefaultClient.Do returns for the outbound request built
\* from r: the answer of the target, and the request it answers.
ClientResponse(up, r, url) ==
    [StatusCode |-> up.StatusCode, Header |-> up.Header, BodyIsNil |-> FALSE,
     Stream |-> up.Stream, Request |-> r, URL |-> url]

\* http.Error: a plain-text body under the given status.
HttpError(w, msg, code) ==
    [StatusCode |-> code,
     Header |-> SetHeaders(w.Header, [h \in {"Content-Type", "X-Content-Type-Options"} |->
                                        IF h = "Content-Type" THEN "text/plain; charset=utf-8"
                                        ELSE "nosniff"]),
     Body |-> <<msg>>]

\* Lines 86-91 and 151-155: the headers of the response replace those already
\* set, then the status and the body are written.
WriteResponse(w, response, body) ==
    [StatusCode |-> response.StatusCode,
     Header |-> SetHeaders(w.Header, response.Header),
     Body |-> body]

\* url.Parse of line 75 and targetURL.String() of line 82, for each target.
Parsed == [t \in Targets |-> URLParse(t)]
TargetString == [t \in Targets |-> URLString(Parsed[t])]

\* Line 82 without the Authorization header.
CacheKeyNoAuth(method, url, ct, auth) ==
    method \o <<SP>> \o url \o <<SP>> \o ct

\* Line 82.
CacheKey(method, url, ct, auth) ==
    method \o <<SP>> \o url \o <<SP>> \o ct \o <<SP>> \o auth

\* Lines 53-58: what Debug reports for one entry.
Summary(entry) ==
    [URL |-> entry.Response.URL, Method |-> entry.Response.Request.method,
     Status |-> entry.Response.StatusCode, Size |-> Len(entry.Body)]

\* -------------------------------------------------------------------- state
Procs == 1..NumProcs
NoProc == 0

VARIABLES
    entries,      \* Cache.entries: key -> CacheEntry
    writer,       \* the goroutine inside Cache.mutex.Lock .. Unlock, or NoProc
    readers,      \* the goroutines between RLock and RUnlock
    pc,           \* where each handler goroutine stands
    req,          \* r: the request a goroutine serves
    url,          \* targetURL.String()
    cacheKey,     \* cacheKey
    cachedEntry,  \* cachedEntry
    resp,         \* resp
    body,         \* body
    debug,        \* the map Cache.Debug builds
    out,          \* w: headers set so far and, once written, status and body
    panicked,     \* the handler ended in a run-time panic
    nreq,         \* requests accepted so far
    calls,        \* history: upstream calls made for the current request
    setLog,       \* history: per key, the entries written by Set, in order
    returned,     \* history: per key, how many Set calls have returned
    floor,        \* history: returned[cacheKey] when the current Get took the lock
    seen,         \* history: Len(setLog[cacheKey]) when the current Get read
    completed,    \* history: the keys for which a request has stored and responded
    late          \* history: the request arrived when its key was in completed

vars == <<entries, writer, readers, pc, req, url, cacheKey, cachedEntry, resp, body,
          debug, out, panicked, nreq, calls, setLog, returned, floor, seen, completed, late>>

locals == <<url, cacheKey, cachedEntry, resp, body, debug>>
store == <<entries, writer, readers>>
history == <<setLog, returned, completed>>

\* NewCache, lines 23-27, and no request in progress.
Init ==
    /\ entries = [k \in {} |-> NoEntry]
    /\ writer = NoProc
    /\ readers = {}
    /\ pc = [p \in Procs |-> "idle"]
    /\ req = [p \in Procs |-> NoRequest]
    /\ url = [p \in Procs |-> <<>>]
    /\ cacheKey = [p \in Procs |-> <<>>]
    /\ cachedEntry = [p \in Procs |-> NoEntry]
    /\ resp = [p \in Procs |-> ZeroResponse]
    /\ body = [p \in Procs |-> <<>>]
    /\ debug = [p \in Procs |-> NoDebug]
    /\ out = [p \in Procs |-> NoResponse]
    /\ panicked = [p \in Procs |-> FALSE]
    /\ nreq = 0
    /\ calls = [p \in Procs |-> 0]
    /\ setLog = [k \in {} |-> <<>>]
    /\ returned = [k \in {} |-> 0]
    /\ floor = [p \in Procs |-> 0]
    /\ seen = [p \in Procs |-> 0]
    /\ completed = {}
    /\ late = [p \in Procs |-> FALSE]

Put(f, k, v) == [x \in DOMAIN f \cup {k} |-> IF x = k THEN v ELSE f[x]]
Count(f, k) == IF k \in DOMAIN f THEN f[k] ELSE 0
LogLen(k) == IF k \in DOMAIN setLog THEN Len(setLog[k]) ELSE 0

\* A request reaches the server and is served by a new goroutine with fresh
\* locals; it takes the first slot whose handler has returned.
Free(p) == pc[p] \in {"idle", "done"}

Accept(p, r) ==
    /\ Free(p)
    /\ \A q \in Procs : q < p => ~Free(q)
    /\ nreq < MaxReqs
    /\ nreq' = nreq + 1
    /\ req' = [req EXCEPT ![p] = r]
    /\ cachedEntry' = [cachedEntry EXCEPT ![p] = NoEntry]
    /\ resp' = [resp EXCEPT ![p] = ZeroResponse]
    /\ body' = [body EXCEPT ![p] = <<>>]
    /\ debug' = [debug EXCEPT ![p] = NoDebug]
    /\ panicked' = [panicked EXCEPT ![p] = FALSE]
    /\ calls' = [calls EXCEPT ![p] = 0]
    /\ floor' = [floor EXCEPT ![p] = 0]
    /\ seen' = [seen EXCEPT ![p] = 0]

\* withCors, lines 185-187: the three headers are set before the handler runs.
WithCors == [NoResponse EXCEPT !.Header = [h \in {ACAO, ACAM, ACAH} |-> "*"]]

\* Line 75 alone, without the test for an empty target of line 69.
TargetOKNoEmptyTest(r) == ~Parsed[r.target].err

\* Lines 68-79: a missing or unparsable target ends the request with 400.
TargetOK(r) == r.target # <<>> /\ ~Parsed[r.target].err

ProxyBadTarget(p, r) ==
    /\ ~TargetOK(r)
    /\ Accept(p, r)
    /\ out' = [out EXCEPT ![p] =
                 HttpError(WithCors,
                           IF r.target = <<>> THEN "Up and running! Usage"
                           ELSE "Invalid 'target' URL", 400)]
    /\ url' = [url EXCEPT ![p] = <<>>]
    /\ cacheKey' = [cacheKey EXCEPT ![p] = <<>>]
    /\ late' = [late EXCEPT ![p] = FALSE]
    /\ pc' = [pc EXCEPT ![p] = "done"]
    /\ UNCHANGED <<store, history>>

\* Lines 68-82: the target parses and the cache key is built.
ProxyStart(p, r) ==
    /\ TargetOK(r)
    /\ Accept(p, r)
    /\ LET u == TargetString[r.target]
           k == CacheKey(r.method, u, r.ct, r.auth)
       IN /\ url' = [url EXCEPT ![p] = u]
          /\ cacheKey' = [cacheKey EXCEPT ![p] = k]
          /\ late' = [late EXCEPT ![p] = (k \in completed)]
    /\ out' = [out EXCEPT ![p] = WithCors]
    /\ pc' = [pc EXCEPT ![p] = "lookup"]
    /\ UNCHANGED <<store, history>>

\* Cache.Get, line 38: RLock waits while a writer holds or awaits the lock.
GetRLock(p) ==
    /\ pc[p] = "lookup"
    /\ writer = NoProc
    /\ readers' = readers \cup {p}
    /\ floor' = [floor EXCEPT ![p] = Count(returned, cacheKey[p])]
    /\ pc' = [pc EXCEPT ![p] = "get"]
    /\ UNCHANGED <<entries, writer, req, locals, out, panicked, nreq, calls, history,
                   seen, late>>

\* Cache.Get reporting every key as absent.
GetReturnMiss(p) ==
    /\ pc[p] = "get"
    /\ readers' = readers \ {p}
    /\ cachedEntry' = cachedEntry
    /\ pc' = [pc EXCEPT ![p] = "forward"]
    /\ seen' = [seen EXCEPT ![p] = LogLen(cacheKey[p])]
    /\ UNCHANGED <<entries, writer, req, url, cacheKey, resp, body, debug, out, panicked,
                   nreq, calls, history, floor, late>>

\* Cache.Get with the RUnlock deferred to the end of the handler, not of Get.
GetReturnHoldingLock(p) ==
    /\ pc[p] = "get"
    /\ readers' = readers
    /\ IF cacheKey[p] \in DOMAIN entries
       THEN /\ cachedEntry' = [cachedEntry EXCEPT ![p] = entries[cacheKey[p]]]
            /\ pc' = [pc EXCEPT ![p] = "replay"]
       ELSE /\ cachedEntry' = cachedEntry
            /\ pc' = [pc EXCEPT ![p] = "forward"]
    /\ seen' = [seen EXCEPT ![p] = LogLen(cacheKey[p])]
    /\ UNCHANGED <<entries, writer, req, url, cacheKey, resp, body, debug, out, panicked,
                   nreq, calls, history, floor, late>>

\* Cache.Get, lines 39-41, and the branch of line 83.
GetReturn(p) ==
    /\ pc[p] = "get"
    /\ readers' = readers \ {p}
    /\ IF cacheKey[p] \in DOMAIN entries
       THEN /\ cachedEntry' = [cachedEntry EXCEPT ![p] = entries[cacheKey[p]]]
            /\ pc' = [pc EXCEPT ![p] = "replay"]
       ELSE /\ cachedEntry' = cachedEntry
            /\ pc' = [pc EXCEPT ![p] = "forward"]
    /\ seen' = [seen EXCEPT ![p] = LogLen(cacheKey[p])]
    /\ UNCHANGED <<entries, writer, req, url, cacheKey, resp, body, debug, out, panicked,
                   nreq, calls, history, floor, late>>

\* Lines 84-92 with a replay that consumes the body it sends: the stored
\* entry is left with an empty body.
ReplayDrainsBody(p) ==
    /\ pc[p] = "replay"
    /\ out' = [out EXCEPT ![p] =
                 WriteResponse(out[p], cachedEntry[p].Response, cachedEntry[p].Body)]
    /\ entries' = [entries EXCEPT ![cacheKey[p]].Body = <<>>]
    /\ pc' = [pc EXCEPT ![p] = "done"]
    /\ UNCHANGED <<writer, readers, req, locals, panicked, nreq, calls, history, floor,
                   seen, late>>

\* Lines 84-92: the cached response is written to the client.
Replay(p) ==
    /\ pc[p] = "replay"
    /\ out' = [out EXCEPT ![p] =
                 WriteResponse(out[p], cachedEntry[p].Response, cachedEntry[p].Body)]
    /\ pc' = [pc EXCEPT ![p] = "done"]
    /\ UNCHANGED <<store, req, locals, panicked, nreq, calls, history, floor, seen, late>>

\* Lines 98-133 without the "return" of lines 112 and 131: after a failed
\* call the handler goes on with the empty response.
ForwardFallThrough(p, method) ==
    /\ pc[p] = "forward"
    /\ req[p].method = method
    /\ \/ /\ out' = [out EXCEPT ![p] = HttpError(out[p], "Error forwarding request", 500)]
          /\ pc' = [pc EXCEPT ![p] = "store"]
          /\ calls' = [calls EXCEPT ![p] = @ + 1]
          /\ resp' = resp
       \/ \E up \in UpstreamResponses :
             /\ resp' = [resp EXCEPT ![p] = ClientResponse(up, req[p], url[p])]
             /\ calls' = [calls EXCEPT ![p] = @ + 1]
             /\ pc' = [pc EXCEPT ![p] = "read"]
             /\ out' = out
    /\ UNCHANGED <<store, req, url, cacheKey, cachedEntry, body, debug, panicked, nreq,
                   history, floor, seen, late>>

\* http.NewRequest, lines 102 and 120: the method is a valid one, so it fails
\* only when the URL string does not parse again.
Reparsed == [t \in Targets |-> URLParse(TargetString[t])]
NewRequestFails(r) == Reparsed[r.target].err

\* Lines 98-114 (GET) and 116-133 (POST): the request is rebuilt and sent;
\* a failure of http.NewRequest or of DefaultClient.Do ends the request with
\* 500. ups are the answers the target server may give; no line looks at the
\* status of the answer.
ForwardWith(p, method, ups) ==
    /\ pc[p] = "forward"
    /\ req[p].method = method
    /\ IF NewRequestFails(req[p])
       THEN /\ out' = [out EXCEPT ![p] = HttpError(out[p], "Error creating request", 500)]
            /\ pc' = [pc EXCEPT ![p] = "done"]
            /\ UNCHANGED <<resp, calls>>
       ELSE \/ /\ out' = [out EXCEPT ![p] =
                             HttpError(out[p], "Error forwarding request", 500)]
               /\ pc' = [pc EXCEPT ![p] = "done"]
               /\ calls' = [calls EXCEPT ![p] = @ + 1]
               /\ resp' = resp
            \/ \E up \in ups :
                  /\ resp' = [resp EXCEPT ![p] = ClientResponse(up, req[p], url[p])]
                  /\ calls' = [calls EXCEPT ![p] = @ + 1]
                  /\ pc' = [pc EXCEPT ![p] = "read"]
                  /\ out' = out
    /\ UNCHANGED <<store, req, url, cacheKey, cachedEntry, body, debug, panicked, nreq,
                   history, floor, seen, late>>

Forward(p, method) == ForwardWith(p, method, UpstreamResponses)

ForwardGET(p) == Forward(p, GET)
ForwardPOST(p) == Forward(p, POST)

\* Lines 95-135 for any other method as if the empty response had a Body: the
\* handler goes on to read and store it.
UnsupportedMethodGoesOn(p) ==
    /\ pc[p] = "forward"
    /\ req[p].method \notin {GET, POST}
    /\ resp' = [resp EXCEPT ![p] = ZeroResponse]
    /\ panicked' = panicked
    /\ pc' = [pc EXCEPT ![p] = "read"]
    /\ UNCHANGED <<store, req, url, cacheKey, cachedEntry, body, debug, out, nreq, calls,
                   history, floor, seen, late>>

\* Lines 95, 98, 116 and 135 for any other method: resp stays the empty
\* response, whose Body is nil, and "defer resp.Body.Close()" panics. The
\* server recovers the panic and closes the connection without a response.
UnsupportedMethod(p) ==
    /\ pc[p] = "forward"
    /\ req[p].method \notin {GET, POST}
    /\ resp' = [resp EXCEPT ![p] = ZeroResponse]
    /\ panicked' = [panicked EXCEPT ![p] = ZeroResponse.BodyIsNil]
    /\ pc' = [pc EXCEPT ![p] = IF ZeroResponse.BodyIsNil THEN "done" ELSE "read"]
    /\ UNCHANGED <<store, req, url, cacheKey, cachedEntry, body, debug, out, nreq, calls,
                   history, floor, seen, late>>

\* Lines 138-142 without the "return" of line 141: what was read before the
\* error is cached.
ReadBodyNoReturn(p) ==
    /\ pc[p] = "read"
    /\ \/ /\ body' = [body EXCEPT ![p] = resp[p].Stream]
          /\ out' = out
       \/ \E n \in 0..(Len(resp[p].Stream) - 1) :
             /\ body' = [body EXCEPT ![p] = Take(resp[p].Stream, n)]
             /\ out' = [out EXCEPT ![p] = HttpError(out[p], "Error reading response body", 500)]
    /\ pc' = [pc EXCEPT ![p] = "store"]
    /\ UNCHANGED <<store, req, url, cacheKey, cachedEntry, resp, debug, panicked, nreq,
                   calls, history, floor, seen, late>>

\* Lines 138-148 under a status test the code does not make: a response with
\* a status of 400 or more is sent to the client without being stored.
ReadBodyStoresBelow400(p) ==
    /\ pc[p] = "read"
    /\ \/ /\ body' = [body EXCEPT ![p] = resp[p].Stream]
          /\ pc' = [pc EXCEPT ![p] = IF resp[p].StatusCode >= 400 THEN "respond"
                                     ELSE "store"]
          /\ out' = out
       \/ \E n \in 0..(Len(resp[p].Stream) - 1) :
             /\ body' = [body EXCEPT ![p] = Take(resp[p].Stream, n)]
             /\ out' = [out EXCEPT ![p] = HttpError(out[p], "Error reading response body", 500)]
             /\ pc' = [pc EXCEPT ![p] = "done"]
    /\ UNCHANGED <<store, req, url, cacheKey, cachedEntry, resp, debug, panicked, nreq,
                   calls, history, floor, seen, late>>

\* Lines 138-142: io.ReadAll returns the whole body, or an error after part
\* of it, which ends the request with 500.
ReadBody(p) ==
    /\ pc[p] = "read"
    /\ \/ /\ body' = [body EXCEPT ![p] = resp[p].Stream]
          /\ pc' = [pc EXCEPT ![p] = "store"]
          /\ out' = out
       \/ \E n \in 0..(Len(resp[p].Stream) - 1) :
             /\ body' = [body EXCEPT ![p] = Take(resp[p].Stream, n)]
             /\ out' = [out EXCEPT ![p] = HttpError(out[p], "Error reading response body", 500)]
             /\ pc' = [pc EXCEPT ![p] = "done"]
    /\ UNCHANGED <<store, req, url, cacheKey, cachedEntry, resp, debug, panicked, nreq,
                   calls, history, floor, seen, late>>

\* Cache.Set, line 31: Lock first excludes other writers and new readers ...
SetLock(p) ==
    /\ pc[p] = "store"
    /\ writer = NoProc
    /\ writer' = p
    /\ pc' = [pc EXCEPT ![p] = "write"]
    /\ UNCHANGED <<entries, readers, req, locals, out, panicked, nreq, calls, history,
                   floor, seen, late>>

\* Line 33 keeping the entry a key already has.
SetWriteIfAbsent(p) ==
    /\ pc[p] = "write"
    /\ readers = {}
    /\ LET e == [Response |-> resp[p], Body |-> body[p]]
       IN /\ entries' = IF cacheKey[p] \in DOMAIN entries THEN entries
                         ELSE Put(entries, cacheKey[p], e)
          /\ setLog' = Put(setLog, cacheKey[p],
                           IF cacheKey[p] \in DOMAIN setLog
                           THEN Append(setLog[cacheKey[p]], e) ELSE <<e>>)
    /\ pc' = [pc EXCEPT ![p] = "unlock"]
    /\ UNCHANGED <<writer, readers, req, locals, out, panicked, nreq, calls, returned,
                   completed, floor, seen, late>>

\* Line 33 assigning a fresh map that holds the new entry only.
SetWriteFreshMap(p) ==
    /\ pc[p] = "write"
    /\ readers = {}
    /\ LET e == [Response |-> resp[p], Body |-> body[p]]
       IN /\ entries' = Put([k \in {} |-> NoEntry], cacheKey[p], e)
          /\ setLog' = Put(setLog, cacheKey[p],
                           IF cacheKey[p] \in DOMAIN setLog
                           THEN Append(setLog[cacheKey[p]], e) ELSE <<e>>)
    /\ pc' = [pc EXCEPT ![p] = "unlock"]
    /\ UNCHANGED <<writer, readers, req, locals, out, panicked, nreq, calls, returned,
                   completed, floor, seen, late>>

\* Line 33 assigning the new entry to every key of the map.
SetWriteEveryKey(p) ==
    /\ pc[p] = "write"
    /\ readers = {}
    /\ LET e == [Response |-> resp[p], Body |-> body[p]]
       IN /\ entries' = [k \in DOMAIN entries \cup {cacheKey[p]} |-> e]
          /\ setLog' = Put(setLog, cacheKey[p],
                           IF cacheKey[p] \in DOMAIN setLog
                           THEN Append(setLog[cacheKey[p]], e) ELSE <<e>>)
    /\ pc' = [pc EXCEPT ![p] = "unlock"]
    /\ UNCHANGED <<writer, readers, req, locals, out, panicked, nreq, calls, returned,
                   completed, floor, seen, late>>

\* ... then waits until the readers inside have left; line 33 writes the entry.
SetWrite(p) ==
    /\ pc[p] = "write"
    /\ readers = {}
    /\ LET e == [Response |-> resp[p], Body |-> body[p]]
       IN /\ entries' = Put(entries, cacheKey[p], e)
          /\ setLog' = Put(setLog, cacheKey[p],
                           IF cacheKey[p] \in DOMAIN setLog
                           THEN Append(setLog[cacheKey[p]], e) ELSE <<e>>)
    /\ pc' = [pc EXCEPT ![p] = "unlock"]
    /\ UNCHANGED <<writer, readers, req, locals, out, panicked, nreq, calls, returned,
                   completed, floor, seen, late>>

\* Cache.Set, line 32: the deferred Unlock; Set returns.
SetUnlock(p) ==
    /\ pc[p] = "unlock"
    /\ writer' = NoProc
    /\ returned' = Put(returned, cacheKey[p], Count(returned, cacheKey[p]) + 1)
    /\ pc' = [pc EXCEPT ![p] = "respond"]
    /\ UNCHANGED <<entries, readers, req, locals, out, panicked, nreq, calls, setLog,
                   completed, floor, seen, late>>

\* Lines 151-155 answering from the store, not from the handler's own resp
\* and body.
RespondFromStore(p) ==
    /\ pc[p] = "respond"
    /\ out' = [out EXCEPT ![p] =
                 WriteResponse(out[p], entries[cacheKey[p]].Response,
                               entries[cacheKey[p]].Body)]
    /\ completed' = completed \cup {cacheKey[p]}
    /\ pc' = [pc EXCEPT ![p] = "done"]
    /\ UNCHANGED <<store, req, locals, panicked, nreq, calls, setLog, returned, floor,
                   seen, late>>

\* Lines 151-155: the upstream response is written to the client.
Respond(p) ==
    /\ pc[p] = "respond"
    /\ out' = [out EXCEPT ![p] = WriteResponse(out[p], resp[p], body[p])]
    /\ completed' = completed \cup {cacheKey[p]}
    /\ pc' = [pc EXCEPT ![p] = "done"]
    /\ UNCHANGED <<store, req, locals, panicked, nreq, calls, setLog, returned, floor,
                   seen, late>>

\* debugHandler, line 161, entering Cache.Debug.
DebugStart(p, r) ==
    /\ Accept(p, r)
    /\ out' = [out EXCEPT ![p] = WithCors]
    /\ url' = [url EXCEPT ![p] = <<>>]
    /\ cacheKey' = [cacheKey EXCEPT ![p] = <<>>]
    /\ late' = [late EXCEPT ![p] = FALSE]
    /\ pc' = [pc EXCEPT ![p] = "debugLock"]
    /\ UNCHANGED <<store, history>>

\* Cache.Debug without the RLock of line 49.
DebugRLockNoLock(p) ==
    /\ pc[p] = "debugLock"
    /\ readers' = readers
    /\ debug' = [debug EXCEPT ![p] = NoDebug]
    /\ pc' = [pc EXCEPT ![p] = "debugRange"]
    /\ UNCHANGED <<entries, writer, req, url, cacheKey, cachedEntry, resp, body, out,
                   panicked, nreq, calls, history, floor, seen, late>>

\* Cache.Debug, lines 49-51.
DebugRLock(p) ==
    /\ pc[p] = "debugLock"
    /\ writer = NoProc
    /\ readers' = readers \cup {p}
    /\ debug' = [debug EXCEPT ![p] = NoDebug]
    /\ pc' = [pc EXCEPT ![p] = "debugRange"]
    /\ UNCHANGED <<entries, writer, req, url, cacheKey, cachedEntry, resp, body, out,
                   panicked, nreq, calls, history, floor, seen, late>>

\* Cache.Debug, lines 52-59: one iteration of the range over the entries, in
\* whatever order the map yields them. Lines 54 and 55 dereference the Request
\* of the stored response: when it is nil the handler panics, the deferred
\* RUnlock runs, and the server closes the connection without a response.
DebugEntry(p, k) ==
    /\ pc[p] = "debugRange"
    /\ k \in DOMAIN entries \ DOMAIN debug[p]
    /\ IF entries[k].Response.Request = NoRequest
       THEN /\ panicked' = [panicked EXCEPT ![p] = TRUE]
            /\ readers' = readers \ {p}
            /\ pc' = [pc EXCEPT ![p] = "done"]
            /\ debug' = debug
       ELSE /\ debug' = [debug EXCEPT ![p] = Put(debug[p], k, Summary(entries[k]))]
            /\ UNCHANGED <<readers, pc, panicked>>
    /\ UNCHANGED <<entries, writer, req, url, cacheKey, cachedEntry, resp, body, out,
                   nreq, calls, history, floor, seen, late>>

\* Cache.Debug returning after at most one iteration of the range.
DebugReturnEarly(p) ==
    /\ pc[p] = "debugRange"
    /\ DOMAIN entries # {} => DOMAIN debug[p] # {}
    /\ readers' = readers \ {p}
    /\ out' = [out EXCEPT ![p] = [StatusCode |-> 200, Header |-> out[p].Header,
                                  Body |-> <<"json">>]]
    /\ pc' = [pc EXCEPT ![p] = "done"]
    /\ UNCHANGED <<entries, writer, req, locals, panicked, nreq, calls, history, floor,
                   seen, late>>

\* Cache.Debug, lines 50 and 60, and the encoding of line 162.
DebugReturn(p) ==
    /\ pc[p] = "debugRange"
    /\ DOMAIN entries \subseteq DOMAIN debug[p]
    /\ readers' = readers \ {p}
    /\ out' = [out EXCEPT ![p] = [StatusCode |-> 200, Header |-> out[p].Header,
                                  Body |-> <<"json">>]]
    /\ pc' = [pc EXCEPT ![p] = "done"]
    /\ UNCHANGED <<entries, writer, req, locals, panicked, nreq, calls, history, floor,
                   seen, late>>

\* The /health handler refusing only the methods the proxy does not forward.
HealthAllowsPost(p, r) ==
    /\ Accept(p, r)
    /\ out' = [out EXCEPT ![p] =
                 IF r.method \notin {GET, POST}
                 THEN HttpError(WithCors, "Method not allowed", 405)
                 ELSE [WithCors EXCEPT !.StatusCode = 200]]
    /\ url' = [url EXCEPT ![p] = <<>>]
    /\ cacheKey' = [cacheKey EXCEPT ![p] = <<>>]
    /\ late' = [late EXCEPT ![p] = FALSE]
    /\ pc' = [pc EXCEPT ![p] = "done"]
    /\ UNCHANGED <<store, history>>

\* The /health handler, lines 169-175.
Health(p, r) ==
    /\ Accept(p, r)
    /\ out' = [out EXCEPT ![p] =
                 IF r.method # GET THEN HttpError(WithCors, "Method not allowed", 405)
                 ELSE [WithCors EXCEPT !.StatusCode = 200]]
    /\ url' = [url EXCEPT ![p] = <<>>]
    /\ cacheKey' = [cacheKey EXCEPT ![p] = <<>>]
    /\ late' = [late EXCEPT ![p] = FALSE]
    /\ pc' = [pc EXCEPT ![p] = "done"]
    /\ UNCHANGED <<store, history>>

\* The steps of the handlers once a request is accepted.
Step(p) ==
    \/ GetRLock(p)
    \/ GetReturn(p)
    \/ Replay(p)
    \/ ForwardGET(p)
    \/ ForwardPOST(p)
    \/ UnsupportedMethod(p)
    \/ ReadBody(p)
    \/ SetLock(p)
    \/ SetWrite(p)
    \/ SetUnlock(p)
    \/ Respond(p)
    \/ DebugRLock(p)
    \/ \E k \in DOMAIN entries : DebugEntry(p, k)
    \/ DebugReturn(p)

Next ==
    \E p \in Procs :
        \/ \E r \in ProxyRequests : ProxyBadTarget(p, r)
        \/ \E r \in ProxyRequests : ProxyStart(p, r)
        \/ \E r \in DebugRequests : DebugStart(p, r)
        \/ \E r \in HealthRequests : Health(p, r)
        \/ Step(p)

Spec == Init /\ [][Next]_vars

\* The server when every handler goroutine that can take a step eventually
\* takes one: the scheduler runs every runnable goroutine, and every upstream
\* call and every read of a body returns.
FairSpec == Spec /\ \A p \in Procs : WF_vars(Step(p))

\* The server under GET requests that differ in the two headers, one request
\* at a time.
NextHeaders ==
    \E p \in {1} :
        \/ \E r \in HeaderRequests : ProxyStart(p, r)
        \/ GetRLock(p)
        \/ GetReturn(p)
        \/ Replay(p)
        \/ ForwardGET(p)
        \/ ReadBody(p)
        \/ SetLock(p)
        \/ SetWrite(p)
        \/ SetUnlock(p)
        \/ Respond(p)

SpecHeaders == Init /\ [][NextHeaders]_vars

\* The server under GET and POST requests for one target, answered upstream
\* with any of Statuses, and /health requests of every method, one request at
\* a time.
ForwardSerial(p) == \E m \in {GET, POST} : ForwardWith(p, m, StatusResponses)

NextSerial ==
    \E p \in {1} :
        \/ \E r \in SerialRequests : ProxyStart(p, r)
        \/ \E r \in HealthAnyMethod : Health(p, r)
        \/ GetRLock(p)
        \/ GetReturn(p)
        \/ Replay(p)
        \/ ForwardSerial(p)
        \/ ReadBody(p)
        \/ SetLock(p)
        \/ SetWrite(p)
        \/ SetUnlock(p)
        \/ Respond(p)

SpecSerial == Init /\ [][NextSerial]_vars

\* ------------------------------------------------------------------ claims
\* Cache.Get has returned to the proxy handler of goroutine p.
Got(p) ==
    /\ req[p].path = "/"
    /\ pc[p] \in {"replay", "forward", "read", "store", "write", "unlock", "respond", "done"}
    /\ cacheKey[p] # <<>>
Hit(p) == Got(p) /\ cachedEntry[p] # NoEntry
\* What a client receives when entry e is replayed.
Replayed(e) == WriteResponse(WithCors, e.Response, e.Body)
BadTarget(r) == r.target = <<>> \/ Parsed[r.target].err
\* The step in which goroutine p takes a new request.
Accepting(p) == nreq' = nreq + 1 /\ Free(p) /\ \A q \in Procs : q < p => ~Free(q)

\* C1, as stated: a request that arrives after a request for its key has
\* stored and completed makes no upstream call and receives the status,
\* headers and body of the first response stored under the key.
C1_FirstResponseForever ==
    \A p \in Procs :
        pc[p] = "done" /\ late[p] =>
            calls[p] = 0 /\ out[p] = Replayed(setLog[cacheKey[p]][1])

\* C1, amended: a request that arrives after a request for its key has
\* stored and completed makes no upstream call and receives the status,
\* headers and body of the entry that the latest Set before its lookup stored
\* under the key.
C1_StoredResponseReplayed ==
    \A p \in Procs :
        pc[p] = "done" /\ late[p] =>
            /\ calls[p] = 0
            /\ seen[p] >= 1
            /\ out[p] = Replayed(setLog[cacheKey[p]][seen[p]])

C1_Witness ==
    \E p \in Procs :
        /\ pc[p] = "done" /\ late[p]
        /\ out[p].StatusCode = 404
        /\ out[p] = Replayed(setLog[cacheKey[p]][1])

\* C2: a stored response is replayed only to a request whose method, target,
\* Content-Type and Authorization are those of the request that stored it.
SameFields(a, b) ==
    a.method = b.method /\ a.target = b.target /\ a.ct = b.ct /\ a.auth = b.auth

C2_ReplayOnlyToSameFields ==
    \A p \in Procs : Hit(p) => SameFields(cachedEntry[p].Response.Request, req[p])

\* C3: a request that differs from the request that stored an entry only in
\* Authorization, or only in Content-Type, has another cache key, is never
\* served that entry, and after a miss has made its own upstream call.
OnlyAuthDiffers(a, b) ==
    a.method = b.method /\ a.target = b.target /\ a.ct = b.ct /\ a.auth # b.auth
OnlyContentTypeDiffers(a, b) ==
    a.method = b.method /\ a.target = b.target /\ a.ct # b.ct /\ a.auth = b.auth

C3_HeaderChangesKey ==
    \A p \in Procs :
        Got(p) =>
            /\ \A k \in DOMAIN entries :
                  LET s == entries[k].Response.Request
                  IN OnlyAuthDiffers(s, req[p]) \/ OnlyContentTypeDiffers(s, req[p]) =>
                        k # cacheKey[p] /\ cachedEntry[p].Response.Request # s
            /\ (cachedEntry[p] = NoEntry
                /\ pc[p] \in {"read", "store", "write", "unlock", "respond"}) => calls[p] = 1

C3_Witness ==
    \E p \in Procs :
        /\ pc[p] = "read" /\ calls[p] = 1
        /\ \E k \in DOMAIN entries : OnlyAuthDiffers(entries[k].Response.Request, req[p])
        /\ \E k \in DOMAIN entries :
              OnlyContentTypeDiffers(entries[k].Response.Request, req[p])

\* C4: when the upstream call of a GET or POST fails, that step ends the
\* request with status 500 and leaves the cache entries as they were; no
\* stored entry ever holds the empty response of a failed call.
C4_FailedForwardNotCached ==
    /\ [](\A k \in DOMAIN entries : ~entries[k].Response.BodyIsNil)
    /\ [][\A p \in Procs :
            (pc[p] = "forward" /\ req[p].method \in {GET, POST}
             /\ pc'[p] # "forward" /\ resp'[p].BodyIsNil) =>
                /\ pc'[p] = "done"
                /\ out'[p].StatusCode = 500
                /\ entries' = entries]_vars

C4_Witness ==
    \E p \in Procs :
        /\ pc[p] = "done" /\ req[p].method \in {GET, POST}
        /\ out[p].StatusCode = 500 /\ calls[p] = 1 /\ resp[p].BodyIsNil
        /\ cacheKey[p] \notin DOMAIN entries

\* C5: every stored entry holds the whole body of its upstream response, and
\* a request whose read of the body failed has ended with status 500 without
\* reaching Set.
C5_OnlyCompleteBodiesStored ==
    /\ \A k \in DOMAIN entries : entries[k].Body = entries[k].Response.Stream
    /\ \A p \in Procs :
          (Got(p) /\ ~resp[p].BodyIsNil /\ pc[p] # "read" /\ body[p] # resp[p].Stream) =>
              pc[p] = "done" /\ out[p].StatusCode = 500

C5_Witness ==
    \E p \in Procs :
        /\ pc[p] = "done" /\ ~resp[p].BodyIsNil
        /\ body[p] = <<"b">> /\ resp[p].Stream = <<"b", "c">>
        /\ out[p].StatusCode = 500
        /\ cacheKey[p] \notin DOMAIN entries

\* C6: the step that accepts a proxy request whose target is missing or
\* unparsable ends it with status 400, with no upstream call, outside the
\* lock of the store, and with the store unchanged.
C6_BadTargetRefused ==
    [][\A p \in Procs :
         (Accepting(p) /\ req'[p].path = "/" /\ BadTarget(req'[p])) =>
            /\ pc'[p] = "done"
            /\ out'[p].StatusCode = 400
            /\ calls'[p] = 0
            /\ cachedEntry'[p] = NoEntry
            /\ UNCHANGED <<entries, writer, readers, setLog>>]_vars

C6_Witness ==
    \E p, q \in Procs :
        /\ pc[p] = "done" /\ req[p].path = "/" /\ req[p].target = <<>>
        /\ out[p].StatusCode = 400
        /\ pc[q] = "done" /\ req[q].path = "/" /\ req[q].target = <<"%">>
        /\ out[q].StatusCode = 400
        /\ entries # <<>>

\* C7: a proxy request with a valid target and a method other than GET and
\* POST makes no upstream call and ends with an error response, not with a
\* fault on the absent response.
C7_UnsupportedMethodRefused ==
    \A p \in Procs :
        (pc[p] = "done" /\ req[p].path = "/" /\ ~BadTarget(req[p])
         /\ req[p].method \notin {GET, POST}) =>
            /\ calls[p] = 0
            /\ ~panicked[p]
            /\ out[p].StatusCode \in {400, 405, 500}

\* C8: the store holds for each key the entry of the latest Set, and a Get
\* that takes the lock after n Sets of its key have returned yields the entry
\* of the n-th or of a later Set, never an older one and never "absent".
C8_LastWriterWins ==
    /\ DOMAIN entries = DOMAIN setLog
    /\ \A k \in DOMAIN entries : entries[k] = setLog[k][Len(setLog[k])]
    /\ \A p \in Procs :
          Got(p) =>
              /\ seen[p] >= floor[p]
              /\ IF seen[p] = 0 THEN cachedEntry[p] = NoEntry
                 ELSE cachedEntry[p] = setLog[cacheKey[p]][seen[p]]

C8_Witness ==
    \E p \in Procs :
        /\ Got(p) /\ floor[p] = 2 /\ seen[p] = 2
        /\ setLog[cacheKey[p]][1] # setLog[cacheKey[p]][2]

\* C9: no step removes a key from the store.
C9_KeysOnlyGrow == [][DOMAIN entries \subseteq DOMAIN entries']_vars

C9_Witness == Cardinality(DOMAIN entries) = 2 /\ \E p \in Procs : pc[p] = "replay"

\* C10: when Debug returns, it reports one entry for each key that was
\* cached, and the Size of each is the length of the body stored under that
\* key.
C10_DebugReportsEveryEntry ==
    [][\A p \in Procs :
         (pc[p] = "debugRange" /\ pc'[p] = "done") =>
            /\ DOMAIN debug'[p] = DOMAIN entries'
            /\ Cardinality(DOMAIN debug'[p]) = Cardinality(DOMAIN setLog')
            /\ \A k \in DOMAIN debug'[p] :
                  /\ debug'[p][k].Size = Len(entries'[k].Body)
                  /\ debug'[p][k].Size = Len(setLog'[k][Len(setLog'[k])].Body)]_vars

C10_Witness ==
    \E p \in Procs :
        /\ pc[p] = "done" /\ req[p].path = "/debug"
        /\ \E k1, k2 \in DOMAIN debug[p] : debug[p][k1].Size = 1 /\ debug[p][k2].Size = 2

\* C11, as stated: every response a routed handler sends carries the three
\* Access-Control-Allow-* headers with the value "*", whatever headers the
\* upstream response or the stored entry holds.
C11_CorsWildcardAlways ==
    \A p \in Procs :
        (pc[p] = "done" /\ out[p].StatusCode # 0) =>
            \A h \in {ACAO, ACAM, ACAH} : h \in DOMAIN out[p].Header /\ out[p].Header[h] = "*"

\* Goroutine p missed, its upstream call was answered and the body was read
\* whole: it is past the write of Set.
Missed(p) ==
    /\ Got(p) /\ calls[p] = 1 /\ ~resp[p].BodyIsNil /\ body[p] = resp[p].Stream
    /\ pc[p] \in {"unlock", "respond", "done"}

\* C12: whatever status the target answers, the miss stores an entry with
\* that status and answers with it, and a later hit on the key is answered
\* with the status and body of the stored entry.
C12_AnyStatusCached ==
    \A p \in Procs :
        /\ Missed(p) =>
              /\ cacheKey[p] \in DOMAIN entries
              /\ entries[cacheKey[p]].Response.StatusCode = resp[p].StatusCode
              /\ entries[cacheKey[p]].Body = resp[p].Stream
              /\ pc[p] = "done" => /\ out[p].StatusCode = resp[p].StatusCode
                                   /\ out[p].Body = resp[p].Stream
        /\ (pc[p] = "done" /\ Hit(p)) =>
              /\ calls[p] = 0
              /\ out[p].StatusCode = entries[cacheKey[p]].Response.StatusCode
              /\ out[p].StatusCode = setLog[cacheKey[p]][1].Response.StatusCode
              /\ out[p].Body = setLog[cacheKey[p]][1].Body

C12_Witness ==
    \E p \in Procs :
        /\ pc[p] = "done" /\ Hit(p) /\ calls[p] = 0
        /\ out[p].StatusCode = 503 /\ out[p].Body = <<"a">>
        /\ \E k \in DOMAIN entries : entries[k].Response.StatusCode = 404

\* C13: the step that accepts a /health request answers it at once, with 200
\* when the method is GET and with 405 for any other method, whatever the
\* store holds, and leaves the store and its lock as they were.
C13_HealthAnswers ==
    [][\A p \in Procs :
         (Accepting(p) /\ req'[p].path = "/health") =>
            /\ pc'[p] = "done"
            /\ out'[p].StatusCode = IF req'[p].method = GET THEN 200 ELSE 405
            /\ UNCHANGED <<entries, writer, readers, setLog>>]_vars

C13_Witness ==
    \E p \in Procs :
        /\ pc[p] = "done" /\ req[p].path = "/health" /\ req[p].method = POST
        /\ out[p].StatusCode = 405
        /\ Cardinality(DOMAIN entries) = 2

\* The entry goroutine p hands to Set.
OwnEntry(p) == [Response |-> resp[p], Body |-> body[p]]

\* C14: of two requests for one key that both missed, each has made one
\* upstream call and is answered with the response of its own call; each Set
\* writes its caller's own entry, both entries are in the history of the key,
\* and the store holds the one written last.
C14_ConcurrentMisses ==
    /\ [](\A p, q \in Procs :
             (p # q /\ Missed(p) /\ Missed(q) /\ cacheKey[p] = cacheKey[q]
              /\ pc[p] = "done" /\ pc[q] = "done") =>
                LET log == setLog[cacheKey[p]]
                IN /\ calls[p] = 1 /\ calls[q] = 1
                   /\ out[p] = Replayed(OwnEntry(p))
                   /\ out[q] = Replayed(OwnEntry(q))
                   /\ \E i, j \in 1..Len(log) :
                         i # j /\ log[i] = OwnEntry(p) /\ log[j] = OwnEntry(q)
                   /\ entries[cacheKey[p]] = log[Len(log)])
    /\ [][\A p \in Procs :
            (pc[p] = "write" /\ pc'[p] = "unlock") =>
                entries'[cacheKey[p]] = OwnEntry(p)]_vars

C14_Witness ==
    \E p, q \in Procs :
        /\ p # q /\ Missed(p) /\ Missed(q) /\ cacheKey[p] = cacheKey[q]
        /\ pc[p] = "done" /\ pc[q] = "done"
        /\ out[p].StatusCode = 200 /\ out[q].StatusCode = 404
        /\ entries[cacheKey[p]] = OwnEntry(p)
        /\ setLog[cacheKey[p]] = <<OwnEntry(q), OwnEntry(p)>>

\* C15: a goroutine is among the readers only inside Get and Debug and is the
\* writer only inside Set; none holds the lock while it forwards, reads the
\* body or writes its response, so when every other request is at one of
\* those steps the lock is free for the one that asks for it.
LockFreeSteps == {"idle", "lookup", "replay", "forward", "read", "store", "respond",
                  "debugLock", "done"}

C15_NoLockAcrossIO ==
    /\ \A p \in Procs :
          /\ p \in readers <=> pc[p] \in {"get", "debugRange"}
          /\ writer = p <=> pc[p] \in {"write", "unlock"}
          /\ pc[p] \in LockFreeSteps => p \notin readers /\ writer # p
    /\ \A q \in Procs :
          (\A p \in Procs \ {q} : pc[p] \in {"forward", "read", "replay", "respond", "done"}) =>
              /\ writer \in {NoProc, q}
              /\ readers \subseteq {q}

C15_Witness ==
    \E p, q \in Procs :
        /\ pc[p] = "read" /\ calls[p] = 1
        /\ pc[q] = "unlock" /\ writer = q
        /\ cacheKey[q] = cacheKey[p]

\* C16: the entries change only in the write of Set by a request that missed,
\* was answered upstream and read the whole body; that step writes the key of
\* the request and leaves the entry of every other key as it was. A step that
\* ends a request, or accepts one, leaves the entries as they were.
C16_OnlyStoreWrites ==
    [][/\ entries' # entries =>
            \E p \in Procs :
                /\ pc[p] = "write" /\ pc'[p] = "unlock"
                /\ cachedEntry[p] = NoEntry /\ calls[p] = 1
                /\ ~resp[p].BodyIsNil /\ body[p] = resp[p].Stream
                /\ DOMAIN entries' = DOMAIN entries \cup {cacheKey[p]}
                /\ \A k \in DOMAIN entries \ {cacheKey[p]} : entries'[k] = entries[k]
       /\ (nreq' # nreq \/ \E p \in Procs : pc[p] # "done" /\ pc'[p] = "done") =>
            entries' = entries]_vars

C16_Witness ==
    /\ Cardinality(DOMAIN entries) = 2
    /\ \E k \in DOMAIN entries : Len(setLog[k]) = 2 /\ setLog[k][1] # setLog[k][2]

\* C17: while Debug ranges over the entries no Set takes effect, so the
\* summaries it has gathered are those of the store as it is, and what it
\* returns is the summary of every entry of the store at that moment; the
\* returned summaries stay as they are when the store is written afterwards.
C17_DebugSnapshot ==
    /\ [](\A p \in Procs :
             pc[p] = "debugRange" =>
                \A k \in DOMAIN debug[p] :
                    k \in DOMAIN entries /\ debug[p][k] = Summary(entries[k]))
    /\ [][\A p \in Procs :
            /\ pc[p] = "debugRange" => entries' = entries
            /\ (pc[p] = "debugRange" /\ pc'[p] = "done") =>
                  debug'[p] = [k \in DOMAIN entries |-> Summary(entries[k])]
            /\ (pc[p] = "done" /\ pc'[p] = "done" /\ nreq' = nreq) =>
                  debug'[p] = debug[p]]_vars

C17_Witness ==
    \E p \in Procs :
        /\ pc[p] = "done" /\ req[p].path = "/debug" /\ out[p].StatusCode = 200
        /\ \E k \in DOMAIN debug[p] : debug[p][k] # Summary(entries[k])

\* C18: the entry of a key changes only when a Set for that key takes
\* effect, and two requests that read the key between the same two Sets get
\* the same entry and send the same status, headers and body.
C18_EntriesImmutable ==
    /\ [](\A p, q \in Procs :
             (Hit(p) /\ Hit(q) /\ cacheKey[p] = cacheKey[q] /\ seen[p] = seen[q]) =>
                /\ cachedEntry[p] = cachedEntry[q]
                /\ (pc[p] = "done" /\ pc[q] = "done") => out[p] = out[q])
    /\ [][\A k \in DOMAIN entries :
            (k \in DOMAIN setLog' /\ Len(setLog'[k]) = Len(setLog[k])) =>
                entries'[k] = entries[k]]_vars

C18_Witness ==
    \E p, q \in Procs :
        /\ p # q /\ Hit(p) /\ Hit(q) /\ cacheKey[p] = cacheKey[q] /\ seen[p] = seen[q]
        /\ pc[p] = "done" /\ pc[q] = "done"
        /\ out[p].StatusCode = 404 /\ out[q].Body = <<"b", "c">>

\* C19: every stored entry holds the response of an answered GET or POST call,
\* with the request it answers, under a key that starts with that method, and
\* no /debug request ends in a fault.
C19_DebugNeverFaults ==
    /\ \A k \in DOMAIN entries :
          LET r == entries[k].Response
          IN /\ ~r.BodyIsNil /\ r.StatusCode # 0
             /\ r.Request # NoRequest /\ r.Request.method \in {GET, POST}
             /\ Take(k, Len(r.Request.method) + 1) = r.Request.method \o <<SP>>
    /\ \A p \in Procs : req[p].path = "/debug" => ~panicked[p]

C19_Witness ==
    \E p, q \in Procs :
        /\ pc[p] = "done" /\ req[p].path = "/debug" /\ out[p].StatusCode = 200
        /\ DOMAIN debug[p] # {}
        /\ pc[q] = "done" /\ req[q].method = PUT /\ panicked[q]

\* A request in progress, and a request that has ended with a response.
InProgress(p) == pc[p] \notin {"idle", "done"}
Answered(p) == pc[p] = "done" /\ out[p].StatusCode # 0

\* C20, as stated: every goroutine that holds the lock of the store releases
\* it, and every request eventually ends with a response.
C20_EveryRequestAnswered ==
    \A p \in Procs :
        /\ (p \in readers) ~> (p \notin readers)
        /\ (writer = p) ~> (writer # p)
        /\ InProgress(p) ~> Answered(p)

\* The part of C20 about the lock alone: every goroutine that holds the lock
\* releases it, every goroutine that waits for it gets it, and every handler
\* returns.
LockAlwaysReleased ==
    \A p \in Procs :
        /\ (p \in readers) ~> (p \notin readers)
        /\ (writer = p) ~> (writer # p)
        /\ (pc[p] \in {"lookup", "debugLock"}) ~> (p \in readers)
        /\ (pc[p] = "store") ~> (pc[p] = "unlock")
        /\ InProgress(p) ~> (pc[p] = "done")

====
